---- MODULE Spec2Model ----
(***************************************************************************)
(* FlaggedBitfield (src/src/mod.ts): a mask-aware bitfield over a class-   *)
(* level flag definition.  The model keeps a heap of instances of the      *)
(* subclass F of the resolve documentation, hands them inputs of every     *)
(* accepted shape, among them instances of the README's Permissions, and   *)
(* has one action per public method.  Values are unbounded integers, as    *)
(* bigint is.  A second specification, SpecViews, keeps instances of the   *)
(* README's classes and of a definition outside the powers-of-two          *)
(* convention, and calls the methods that read an instance out.            *)
(***************************************************************************)
EXTENDS Integers, Sequences, FiniteSets

VARIABLES heap, last, out

vars == <<heap, last, out>>

\* ------------------------------------------------------------------ bounds

\* Largest number of instances alive in one run.
MaxInstances == 2

\* Largest number of instances alive in one run of SpecViews.
MaxViewed == 1

\* ------------------------------------------------------- bigint arithmetic

\* ~a on a bigint (two's complement of unbounded width).
BitNot(a) == -a - 1

RECURSIVE BitAnd(_, _)
\* a & b on bigints; negative operands carry infinitely many leading ones.
BitAnd(a, b) ==
    IF a = 0 \/ b = 0 THEN 0
    ELSE IF a = -1 THEN b
    ELSE IF b = -1 THEN a
    ELSE (a % 2) * (b % 2) + 2 * BitAnd(a \div 2, b \div 2)

RECURSIVE BitOr(_, _)
\* a | b on bigints.
BitOr(a, b) ==
    IF a = 0 THEN b
    ELSE IF b = 0 THEN a
    ELSE IF a = -1 \/ b = -1 THEN -1
    ELSE (IF a % 2 = 1 \/ b % 2 = 1 THEN 1 ELSE 0) + 2 * BitOr(a \div 2, b \div 2)

RECURSIVE BitXor(_, _)
\* a ^ b on bigints.
BitXor(a, b) ==
    IF a = 0 THEN b
    ELSE IF b = 0 THEN a
    ELSE IF a = -1 THEN BitNot(b)
    ELSE IF b = -1 THEN BitNot(a)
    ELSE (IF a % 2 = b % 2 THEN 0 ELSE 1) + 2 * BitXor(a \div 2, b \div 2)

\* ------------------------------------------------------ class-level state

\* The subclasses: F of the documentation of resolve, Permissions of the
\* README's Quick start, Defaults of the README's Custom default bit, and
\* Mixed, a subclass whose Flags leave the powers-of-two convention.  A class
\* is named together with the Flags it has now: FWide is the class F once C
\* has been added to its Flags.
Classes == {"F", "Permissions", "Defaults", "Mixed", "FWide"}

\* static Flags of F, and its own keys in declaration order.
FFlags == [A |-> 1, B |-> 2]
FKeys == <<"A", "B">>

\* static Flags of Permissions, and its own keys in declaration order.
PermissionsFlags == [Read |-> 1, Write |-> 2, Execute |-> 4, Admin |-> 8]
PermissionsKeys == <<"Read", "Write", "Execute", "Admin">>

\* static Flags of Defaults, and its own keys in declaration order.
DefaultsFlags == [A |-> 1, B |-> 2, C |-> 4]
DefaultsKeys == <<"A", "B", "C">>

\* static Flags of Mixed, declared out of order: a value of two bits, two
\* names that share a value, and a value of no bit.
MixedFlags == [ReadWrite |-> 3, Write |-> 2, None |-> 0, Read |-> 1, Look |-> 1]
MixedKeys == <<"ReadWrite", "Write", "None", "Read", "Look">>

\* static Flags of F after F.Flags = {A: 1n, B: 2n, C: 4n}.
FWideFlags == [A |-> 1, B |-> 2, C |-> 4]
FWideKeys == <<"A", "B", "C">>

\* this.Flags on class con.
Flags(con) ==
    CASE con = "F" -> FFlags
      [] con = "FWide" -> FWideFlags
      [] con = "Permissions" -> PermissionsFlags
      [] con = "Defaults" -> DefaultsFlags
      [] con = "Mixed" -> MixedFlags

\* Reflect.ownKeys(this.Flags) / Object.values order on class con.
ownKeys(con) ==
    CASE con = "F" -> FKeys
      [] con = "FWide" -> FWideKeys
      [] con = "Permissions" -> PermissionsKeys
      [] con = "Defaults" -> DefaultsKeys
      [] con = "Mixed" -> MixedKeys

\* static DefaultBit: Defaults sets 1n, Mixed a value partly outside its
\* mask, the others inherit 0n.
DefaultBit(con) ==
    CASE con = "Defaults" -> 1
      [] con = "Mixed" -> 5
      [] OTHER -> 0

\* safeIn(ob, key): own-property test.
safeIn(con, key) == key \in DOMAIN Flags(con)

RECURSIVE OrReduce(_, _)
\* Object.values(Flags).reduce((a, b) => a | BigInt(b), 0n), over the first n keys.
OrReduce(con, n) ==
    IF n = 0 THEN 0
    ELSE BitOr(OrReduce(con, n - 1), Flags(con)[ownKeys(con)[n]])

\* getMask() of every class; the definitions are fixed, so one evaluation serves.
maskOf == [con \in Classes |-> OrReduce(con, Len(ownKeys(con)))]

\* static getMask().
getMask(con) == maskOf[con]

\* ------------------------------------------------------------ Bit<T> inputs

NoItems == << >>

\* One record shape for every input a caller can hand in.  An instance input
\* is read through its bitfield getter only, so n carries that value.
Undef == [kind |-> "undefined", b |-> FALSE, n |-> 0, s |-> "", items |-> NoItems]
Bool(v) == [kind |-> "boolean", b |-> v, n |-> 0, s |-> "", items |-> NoItems]
Num(v) == [kind |-> "number", b |-> FALSE, n |-> v, s |-> "", items |-> NoItems]
Str(v) == [kind |-> "string", b |-> FALSE, n |-> 0, s |-> v, items |-> NoItems]
Inst(o) == [kind |-> "instance", b |-> FALSE, n |-> o.bitfield, s |-> "", items |-> NoItems]
Arr(xs) == [kind |-> "array", b |-> FALSE, n |-> 0, s |-> "", items |-> xs]

\* ------------------------------------------------------------------ resolve

\* static resolve(bits) for one non-array input, on class con.
resolveFlat(con, bits) ==
    IF bits.kind = "undefined" THEN 0
    ELSE IF bits.kind = "boolean"
        THEN BitAnd(IF bits.b THEN 1 ELSE 0, getMask(con))
    ELSE IF bits.kind = "instance" THEN bits.n
    ELSE IF bits.kind = "number" THEN BitAnd(bits.n, getMask(con))
    ELSE IF bits.kind = "string" /\ safeIn(con, bits.s) THEN Flags(con)[bits.s]
    ELSE 0

RECURSIVE resolveItems(_, _, _)
\* bits.reduce((a, b) => a | this.resolve(b), 0n) over the first n items.
resolveItems(con, xs, n) ==
    IF n = 0 THEN 0
    ELSE BitOr(resolveItems(con, xs, n - 1), resolveFlat(con, xs[n]))

\* static resolve(bits).
resolve(con, bits) ==
    IF bits.kind = "array" THEN resolveItems(con, bits.items, Len(bits.items))
    ELSE resolveFlat(con, bits)

\* ---------------------------------------------------------------- instances

RECURSIVE insertByBit(_, _)
\* Where .sort((a, b) => (a[1] < b[1] ? -1 : 1)) puts entry e among the sorted xs.
insertByBit(e, xs) ==
    IF xs = << >> THEN <<e>>
    ELSE IF e[2] < Head(xs)[2] THEN <<e>> \o xs
    ELSE <<Head(xs)>> \o insertByBit(e, Tail(xs))

RECURSIVE sortedEntries(_, _)
\* Reflect.ownKeys(Flags).map(k => [k, BigInt(Flags[k])]).sort(...), first n keys.
sortedEntries(con, n) ==
    IF n = 0 THEN << >>
    ELSE insertByBit(<<ownKeys(con)[n], Flags(con)[ownKeys(con)[n]]>>,
                     sortedEntries(con, n - 1))

\* The sorted entries of every class; the definitions are fixed, so one
\* evaluation serves every constructor call.
validFlagsOf == [con \in Classes |-> sortedEntries(con, Len(ownKeys(con)))]

\* constructor(bits): the private fields of the new object.  The parameter
\* default, this.#bitfield = DefaultBit, stands in for an undefined argument.
construct(con, bits) ==
    [con |-> con,
     bitfield |-> resolve(con, IF bits.kind = "undefined"
                                  THEN Num(DefaultBit(con)) ELSE bits),
     validFlags |-> validFlagsOf[con],
     frozen |-> FALSE]

\* constructor() that starts from 0n whatever DefaultBit is.
constructDefaultZero(con) == construct(con, Num(0))

\* constructor(): bits defaults to the field initialiser, DefaultBit.
constructDefault(con) == construct(con, Num(DefaultBit(con)))

\* add(bit) without the frozen test.
addUnguarded(this, bit) ==
    [this EXCEPT !.bitfield =
        BitAnd(BitOr(this.bitfield, resolve(this.con, bit)), getMask(this.con))]

\* add(bit) without the final & getMask().
addNoMask(this, bit) ==
    IF this.frozen THEN this
    ELSE [this EXCEPT !.bitfield = BitOr(this.bitfield, resolve(this.con, bit))]

\* add(bit): the receiver after the call.
add(this, bit) ==
    IF this.frozen THEN this
    ELSE [this EXCEPT !.bitfield =
            BitAnd(BitOr(this.bitfield, resolve(this.con, bit)), getMask(this.con))]

\* remove(bit) without the ~ on the resolved bits.
removeNoNot(this, bit) ==
    IF this.frozen THEN this
    ELSE [this EXCEPT !.bitfield =
            BitAnd(BitAnd(this.bitfield, resolve(this.con, bit)), getMask(this.con))]

\* remove(bit): the receiver after the call.
remove(this, bit) ==
    IF this.frozen THEN this
    ELSE [this EXCEPT !.bitfield =
            BitAnd(BitAnd(this.bitfield, BitNot(resolve(this.con, bit))),
                   getMask(this.con))]

\* has(bit).
has(this, bit) == BitAnd(this.bitfield, resolve(this.con, bit)) # 0

\* with(bit) that adds to the receiver instead of to a copy.
withNoCopy(this, bit) == add(this, bit)

\* with(bit): the new object.
with(this, bit) == add(construct(this.con, Num(this.bitfield)), bit)

\* without(bit) that forgets the remove.
withoutKeeps(this, bit) == construct(this.con, Num(this.bitfield))

\* without(bit): the new object.
without(this, bit) == remove(construct(this.con, Num(this.bitfield)), bit)

\* missing() without the ~ on the value.
missingNoNot(this) ==
    construct(this.con, Num(BitAnd(this.bitfield, getMask(this.con))))

\* missing(): the new object.
missing(this) ==
    construct(this.con, Num(BitAnd(BitNot(this.bitfield), getMask(this.con))))

\* invert() that leaves the value as it is.
invertKeeps(this) == this

\* invert(): the receiver after the call.
invert(this) ==
    IF this.frozen THEN this
    ELSE [this EXCEPT !.bitfield = missing(this).bitfield]

\* union(bit): the new object.
union(this, bit) == with(this, bit)

\* intersection(bit): the new object.
intersection(this, bit) ==
    construct(this.con, Num(BitAnd(this.bitfield, resolve(this.con, bit))))

\* difference(bit): the new object.
difference(this, bit) ==
    construct(this.con,
              Num(BitAnd(this.bitfield, BitNot(resolve(this.con, bit)))))

\* symmetricDifference(bit): the new object.
symmetricDifference(this, bit) ==
    construct(this.con, Num(BitXor(this.bitfield, resolve(this.con, bit))))

\* complement(): the new object.
complement(this) == missing(this)

\* any(bit).
any(this, bit) == intersection(this, bit).bitfield # 0

\* freeze() that flips the flag.
freezeToggle(this) == [this EXCEPT !.frozen = ~this.frozen]

\* freeze(): the receiver after the call.
freeze(this) == [this EXCEPT !.frozen = TRUE]

\* isFrozen().
isFrozen(this) == this.frozen

\* equals(bit) that tests overlap, as has does.
equalsAsHas(this, bit) == BitAnd(this.bitfield, resolve(this.con, bit)) # 0

\* equals(bit).
equals(this, bit) == this.bitfield = resolve(this.con, bit)

RECURSIVE yieldedContained(_, _)
\* The loop with the test (#bitfield & bit) === bit.
yieldedContained(this, xs) ==
    IF xs = << >> THEN << >>
    ELSE (IF BitAnd(this.bitfield, Head(xs)[2]) = Head(xs)[2]
            THEN <<Head(xs)[1]>> ELSE << >>)
            \o yieldedContained(this, Tail(xs))

RECURSIVE yielded(_, _)
\* for (const [flag, bit] of xs) if ((#bitfield & bit) !== 0n) yield flag
yielded(this, xs) ==
    IF xs = << >> THEN << >>
    ELSE (IF BitAnd(this.bitfield, Head(xs)[2]) # 0 THEN <<Head(xs)[1]>> ELSE << >>)
            \o yielded(this, Tail(xs))

\* [Symbol.iterator]() with the containment test.
iteratorContained(this) == yieldedContained(this, this.validFlags)

\* [Symbol.iterator](): the names it yields, in the order it yields them.
iterator(this) == yielded(this, this.validFlags)

\* toArray() that lists every declared name.
toArrayDeclared(this) ==
    [i \in 1..Len(this.validFlags) |-> this.validFlags[i][1]]

\* toArray(): [...this].
toArray(this) == iterator(this)

\* toObject() that keeps the present names only.
toObjectPresent(this) ==
    [k \in {x \in DOMAIN Flags(this.con) : has(this, Str(x))} |-> TRUE]

\* toObject(): one property per key of the class's Flags, holding has(key).
toObject(this) == [k \in DOMAIN Flags(this.con) |-> has(this, Str(k))]

\* entries() that builds the list anew from the class's Flags.
entriesCurrent(this) == validFlagsOf[this.con]

\* entries() that lists the present flags only.
entriesPresent(this) ==
    SelectSeq(this.validFlags, LAMBDA e : BitAnd(this.bitfield, e[2]) # 0)

\* entries(): the list made by the constructor.
entries(this) == this.validFlags

\* keys(): entries' first components.
keys(this) == [i \in 1..Len(this.validFlags) |-> this.validFlags[i][1]]

\* values(): entries' second components.
values(this) == [i \in 1..Len(this.validFlags) |-> this.validFlags[i][2]]

\* What find returns: the flag found, or undefined.
Found(flag) == [found |-> TRUE, flag |-> flag]
NotFound == [found |-> FALSE, flag |-> ""]

RECURSIVE findFrom(_, _)
\* for (const f of this) if (predicate(f)) return f; return undefined, where
\* predicate is the set of names the caller's function is true of.
findFrom(xs, predicate) ==
    IF xs = << >> THEN NotFound
    ELSE IF Head(xs) \in predicate THEN Found(Head(xs))
    ELSE findFrom(Tail(xs), predicate)

\* find(predicate).
find(this, predicate) == findFrom(iterator(this), predicate)

RECURSIVE findIndexFrom(_, _, _)
\* for (let i = ...; i < xs.length; i++) if (predicate(xs[i])) return i; return -1
findIndexFrom(xs, predicate, i) ==
    IF ~(i < Len(xs)) THEN -1
    ELSE IF xs[i + 1] \in predicate THEN i
    ELSE findIndexFrom(xs, predicate, i + 1)

\* findIndex(predicate) that walks the present flags, as find does.
findIndexPresent(this, predicate) == findIndexFrom(iterator(this), predicate, 0)

\* findIndex(predicate): the loop over #validFlags' names.
findIndex(this, predicate) == findIndexFrom(keys(this), predicate, 0)

\* ------------------------------------------------------------------- inputs

\* The class whose instances a run keeps; Permissions instances are made only
\* to be handed in, as in a.union(new Permissions('Execute')).
Kept == {"F"}

\* Numbers handed in: negative, and partly outside F's mask.
NumInputs == {-1, 6}

\* Text handed in: F's declared names and an undeclared one.
StrInputs == {"A", "B", "NotAFlag"}

\* Instances of the other definition, holding bits outside F's mask.
Temporaries ==
    {construct("Permissions", Str("Execute")),
     construct("Permissions", Arr(<<Str("Read"), Str("Execute")>>))}

\* Arrays handed in: empty, of names, and mixing shapes.
ArrayInputs ==
    {Arr(<< >>), Arr(<<Str("A"), Str("B")>>),
     Arr(<<Str("NotAFlag"), Num(5), Inst(construct("Permissions", Str("Execute")))>>)}

\* The inputs that do not depend on the heap.
FixedInputs ==
    {Undef} \cup {Bool(v) : v \in BOOLEAN}
        \cup {Num(v) : v \in NumInputs}
        \cup {Str(v) : v \in StrInputs}
        \cup {Inst(o) : o \in Temporaries}
        \cup ArrayInputs

\* Every input a call can be given while the heap is h.
Inputs(h) == FixedInputs \cup {Inst(h[i]) : i \in 1..Len(h)}

\* ------------------------------------------------------------------ actions

Ids == 1..Len(heap)

\* What the last call was, on which instance, and what it returned: ret is the
\* instance returned (0 when none was), flag the boolean; a list or an object
\* returned is held in out.
Called(op, self, ret, flag) == [op |-> op, self |-> self, ret |-> ret, flag |-> flag]

\* What out holds when the last call returned no list and no object.
NoOut == << >>

\* A call that returns a newly made object o.
Fresh(op, self, o) ==
    /\ Len(heap) < MaxInstances
    /\ heap' = Append(heap, o)
    /\ last' = Called(op, self, Len(heap) + 1, FALSE)
    /\ out' = NoOut

\* A call that leaves the receiver as o and returns the receiver.
Mutate(op, self, o) ==
    /\ heap' = [heap EXCEPT ![self] = o]
    /\ last' = Called(op, self, self, FALSE)
    /\ out' = NoOut

\* A call that returns a boolean and touches nothing.
Query(op, self, v) ==
    /\ heap' = heap
    /\ last' = Called(op, self, 0, v)
    /\ out' = NoOut

New(con, bits) == Fresh("new", 0, construct(con, bits))

NewDefault(con) == Fresh("newDefault", 0, constructDefault(con))

Add(self, bit) == Mutate("add", self, add(heap[self], bit))

Remove(self, bit) == Mutate("remove", self, remove(heap[self], bit))

Invert(self) == Mutate("invert", self, invert(heap[self]))

Freeze(self) == Mutate("freeze", self, freeze(heap[self]))

\* with(bit) that returns the receiver after add(bit) on it.
WithInPlace(self, bit) == Mutate("with", self, add(heap[self], bit))

With(self, bit) == Fresh("with", self, with(heap[self], bit))

Union(self, bit) == Fresh("union", self, union(heap[self], bit))

Without(self, bit) == Fresh("without", self, without(heap[self], bit))

Missing(self) == Fresh("missing", self, missing(heap[self]))

Complement(self) == Fresh("complement", self, complement(heap[self]))

Intersection(self, bit) ==
    Fresh("intersection", self, intersection(heap[self], bit))

Difference(self, bit) == Fresh("difference", self, difference(heap[self], bit))

SymmetricDifference(self, bit) ==
    Fresh("symmetricDifference", self, symmetricDifference(heap[self], bit))

Has(self, bit) == Query("has", self, has(heap[self], bit))

Any(self, bit) == Query("any", self, any(heap[self], bit))

IsFrozen(self) == Query("isFrozen", self, isFrozen(heap[self]))

Init ==
    /\ heap = << >>
    /\ last = Called("none", 0, 0, FALSE)
    /\ out = NoOut

Next ==
    \/ \E con \in Kept, bits \in Inputs(heap) : New(con, bits)
    \/ \E con \in Kept : NewDefault(con)
    \/ \E self \in Ids, bit \in Inputs(heap) : Add(self, bit)
    \/ \E self \in Ids, bit \in Inputs(heap) : Remove(self, bit)
    \/ \E self \in Ids : Invert(self)
    \/ \E self \in Ids : Freeze(self)
    \/ \E self \in Ids, bit \in Inputs(heap) : With(self, bit)
    \/ \E self \in Ids, bit \in Inputs(heap) : Union(self, bit)
    \/ \E self \in Ids, bit \in Inputs(heap) : Without(self, bit)
    \/ \E self \in Ids : Missing(self)
    \/ \E self \in Ids : Complement(self)
    \/ \E self \in Ids, bit \in Inputs(heap) : Intersection(self, bit)
    \/ \E self \in Ids, bit \in Inputs(heap) : Difference(self, bit)
    \/ \E self \in Ids, bit \in Inputs(heap) : SymmetricDifference(self, bit)
    \/ \E self \in Ids, bit \in Inputs(heap) : Has(self, bit)
    \/ \E self \in Ids, bit \in Inputs(heap) : Any(self, bit)
    \/ \E self \in Ids : IsFrozen(self)

Spec == Init /\ [][Next]_vars

\* ---------------------------------------------------- reading an instance

\* The classes whose instances SpecViews keeps.
Viewed == {"Permissions", "Defaults", "Mixed"}

\* The declared names of class con.
Names(con) == DOMAIN Flags(con)

\* Every list of at most two declared names of class con, repeats included.
NameLists(con) ==
    {Arr(<< >>)} \cup {Arr(<<Str(a)>>) : a \in Names(con)}
        \cup {Arr(<<Str(a), Str(b)>>) : a \in Names(con), b \in Names(con)}

\* The inputs handed to an instance of class con: nothing, a raw number, an
\* undeclared name, a declared name, a list of declared names.
ViewInputs(con) ==
    {Undef, Num(5), Str("NotAFlag")} \cup {Str(a) : a \in Names(con)}
        \cup NameLists(con)

\* A call that returns a list or an object v and touches nothing.
View(op, self, v) ==
    /\ heap' = heap
    /\ last' = Called(op, self, 0, FALSE)
    /\ out' = v

Equals(self, bit) == Query("equals", self, equals(heap[self], bit))

\* for (const f of x) ... / [...x]: the iteration run to its end.
Iterate(self) == View("iterator", self, iterator(heap[self]))

ToArray(self) == View("toArray", self, toArray(heap[self]))

ToObject(self) == View("toObject", self, toObject(heap[self]))

Entries(self) == View("entries", self, entries(heap[self]))

Keys(self) == View("keys", self, keys(heap[self]))

Values(self) == View("values", self, values(heap[self]))

\* The predicates handed to find and findIndex, each as the set of names it
\* is true of: of none, of one declared name, of every name.
Predicates(con) == {{}} \cup {{a} : a \in Names(con)} \cup {Names(con)}

Find(self, predicate) == View("find", self, find(heap[self], predicate))

FindIndex(self, predicate) ==
    View("findIndex", self, findIndex(heap[self], predicate))

NextViews ==
    \/ \E con \in Viewed : \E bits \in ViewInputs(con) :
            Len(heap) < MaxViewed /\ New(con, bits)
    \/ \E con \in Viewed : Len(heap) < MaxViewed /\ NewDefault(con)
    \/ \E self \in Ids : \E bit \in ViewInputs(heap[self].con) : Add(self, bit)
    \/ \E self \in Ids : \E bit \in ViewInputs(heap[self].con) : Remove(self, bit)
    \/ \E self \in Ids : \E bit \in ViewInputs(heap[self].con) : Equals(self, bit)
    \/ \E self \in Ids : Iterate(self)
    \/ \E self \in Ids : ToArray(self)
    \/ \E self \in Ids : ToObject(self)
    \/ \E self \in Ids : Entries(self)
    \/ \E self \in Ids : Keys(self)
    \/ \E self \in Ids : Values(self)
    \/ \E self \in Ids : \E predicate \in Predicates(heap[self].con) :
            Find(self, predicate)
    \/ \E self \in Ids : \E predicate \in Predicates(heap[self].con) :
            FindIndex(self, predicate)

SpecViews == Init /\ [][NextViews]_vars

\* ------------------------------------------------ Flags assigned at run time

\* What a class is once its Flags have been assigned: C is added to F's
\* Flags, or taken away again.
Redefined == [F |-> "FWide", FWide |-> "F"]

\* F as it is now: every instance references the one class.
Current == IF heap = << >> THEN "F" ELSE heap[1].con

\* The inputs handed in while F's Flags change: names in and out of either
\* definition, and a number wider than both masks.
LateInputs == {Str("A"), Str("C"), Num(15)}

\* F.Flags = {...}, with instances alive: each of them reads the new Flags
\* through its #con from now on, and no field of any of them is assigned.
Redefine ==
    /\ heap # << >>
    /\ heap' = [i \in DOMAIN heap |->
                    [heap[i] EXCEPT !.con = Redefined[heap[i].con]]]
    /\ last' = Called("redefine", 0, 0, FALSE)
    /\ out' = NoOut

NextRedefine ==
    \/ \E bits \in LateInputs : Len(heap) < MaxViewed /\ New(Current, bits)
    \/ Redefine
    \/ \E self \in Ids, bit \in LateInputs : Add(self, bit)
    \/ \E self \in Ids, bit \in LateInputs : Remove(self, bit)
    \/ \E self \in Ids : Invert(self)
    \/ \E self \in Ids, bit \in LateInputs : With(self, bit)
    \/ \E self \in Ids : Iterate(self)
    \/ \E self \in Ids : Entries(self)
    \/ \E self \in Ids : Keys(self)
    \/ \E self \in Ids : Values(self)

SpecRedefine == Init /\ [][NextRedefine]_vars

\* ------------------------------------------------- the README's Quick start

\* The single names the Quick start's statements are given.
QuickArgs == {Str(a) : a \in Names("Permissions")}

\* const p = new Permissions([...])
QuickCreate(bits) == heap = << >> /\ New("Permissions", bits)

\* p.has(...), once or more
QuickHas(bit) == last.op \in {"new", "has"} /\ Has(1, bit)

\* p.add(...)
QuickAdd(bit) == last.op = "has" /\ Add(1, bit)

\* p.remove(...)
QuickRemove(bit) == last.op = "add" /\ Remove(1, bit)

\* p.invert()
QuickInvert == last.op = "remove" /\ Invert(1)

\* const q = p.with(a).without(b): the instance with returns is held by no
\* one once without has returned.
QuickDerive(a, b) ==
    last.op = "invert" /\ Fresh("without", 1, without(with(heap[1], a), b))

\* q.toArray()
QuickToArray == last.op = "without" /\ ToArray(2)

\* q.toObject()
QuickToObject == last.op = "toArray" /\ ToObject(2)

NextQuickStart ==
    \/ \E bits \in NameLists("Permissions") : QuickCreate(bits)
    \/ \E bit \in QuickArgs : QuickHas(bit)
    \/ \E bit \in QuickArgs : QuickAdd(bit)
    \/ \E bit \in QuickArgs : QuickRemove(bit)
    \/ QuickInvert
    \/ \E a \in QuickArgs, b \in QuickArgs : QuickDerive(a, b)
    \/ QuickToArray
    \/ QuickToObject

SpecQuickStart == Init /\ [][NextQuickStart]_vars

\* ------------------------------------------------------------- vocabulary

RECURSIVE BitsFrom(_, _)
\* The positions, counted from k, of the one bits of the natural number n.
BitsFrom(n, k) ==
    IF n = 0 THEN {}
    ELSE (IF n % 2 = 1 THEN {k} ELSE {}) \cup BitsFrom(n \div 2, k + 1)

\* A non-negative value as the set of its bit positions.
BitsOf(n) == BitsFrom(n, 0)

\* The mask of an instance's class, as a set of bit positions.
MaskBits(o) == BitsOf(getMask(o.con))

\* The instance the last call made, when it made one.
Newest == heap[Len(heap)]

Mutators == {"add", "remove", "invert"}

Derivations ==
    {"with", "union", "without", "missing", "complement",
     "intersection", "difference", "symmetricDifference"}

\* -------------------------------------------------------------------- C1

\* C1: every instance's value lies inside the mask of its class, after
\* construction from any accepted input and after every operation.
MaskInvariant == \A i \in Ids : BitsOf(heap[i].bitfield) \subseteq MaskBits(heap[i])

\* -------------------------------------------------------------------- C2

\* C2: add, remove and invert on a frozen instance leave its value and its
\* frozen flag as they were, whatever the bits, and return that instance.
FrozenIsNoOp ==
    [][\A i \in Ids :
        (heap[i].frozen /\ last'.op \in Mutators /\ last'.self = i)
            => /\ heap'[i].bitfield = heap[i].bitfield
               /\ heap'[i].frozen
               /\ last'.ret = i]_vars

\* A mutator was called on a frozen instance that holds a bit and lacks one.
FrozenMutatorCalled ==
    /\ last.op \in Mutators
    /\ heap[last.self].frozen
    /\ heap[last.self].bitfield = 1

\* -------------------------------------------------------------------- C3

\* C3: a new instance is not frozen; frozen turns true only by freeze() on
\* that instance, which always leaves it true; it never turns false again;
\* freeze() on a frozen instance changes nothing.
FrozenLifecycle ==
    [][/\ \A i \in 1..Len(heap') : i > Len(heap) => ~heap'[i].frozen
       /\ \A i \in Ids :
            /\ heap[i].frozen => heap'[i].frozen
            /\ (~heap[i].frozen /\ heap'[i].frozen)
                   => (last'.op = "freeze" /\ last'.self = i)
            /\ (last'.op = "freeze" /\ last'.self = i)
                   => (heap'[i].frozen /\ last'.ret = i)
            /\ (last'.op = "freeze" /\ last'.self = i /\ heap[i].frozen)
                   => heap'[i] = heap[i]]_vars

\* freeze() has just run on one instance while another one is not frozen.
FreezeCalled ==
    /\ last.op = "freeze"
    /\ heap[last.self].frozen
    /\ \E j \in Ids : ~heap[j].frozen

\* -------------------------------------------------------------------- C4

\* C4: a derivation returns an instance that is not the receiver and leaves
\* every instance there was as it was; a mutation changes the receiver alone,
\* so neither of the two instances follows the other's later changes.
DerivationsCopy ==
    [][/\ last'.op \in Derivations
            => /\ Len(heap') = Len(heap) + 1
               /\ last'.ret = Len(heap')
               /\ last'.ret # last'.self
               /\ \A i \in Ids : heap'[i] = heap[i]
       /\ last'.op \in Mutators \cup {"freeze"}
            => /\ Len(heap') = Len(heap)
               /\ \A i \in Ids : i # last'.self => heap'[i] = heap[i]]_vars

\* A derivation has returned an instance that differs from its receiver.
DerivedDiffers ==
    /\ last.op \in Derivations
    /\ last.ret = Len(heap)
    /\ heap[last.ret].bitfield # heap[last.self].bitfield

\* The receiver of the call that has just returned.
Receiver == heap[last'.self]

\* What resolve made of the bits handed to that call.
Resolved(bit) == BitsOf(resolve(Receiver.con, bit))

\* -------------------------------------------------------------------- C5

\* C5: with(bits) and union(bits) return an instance of the receiver's class
\* that holds (value | resolve(bits)) & mask and is not frozen, whether or
\* not the receiver is frozen; the call stores exactly that instance.
WithAddsToCopy ==
    /\ [](\A i \in Ids, bit \in Inputs(heap) :
            LET r == with(heap[i], bit)
            IN  /\ BitsOf(r.bitfield) =
                    (BitsOf(heap[i].bitfield) \cup BitsOf(resolve(heap[i].con, bit)))
                        \cap MaskBits(heap[i])
                /\ r.con = heap[i].con
                /\ ~r.frozen)
    /\ [][last'.op \in {"with", "union"} =>
            /\ ~Newest'.frozen
            /\ \E bit \in Inputs(heap) :
                /\ Newest' = with(Receiver, bit)
                /\ Newest' = union(Receiver, bit)]_vars

\* with or union has returned, from a frozen receiver, an instance that is
\* not frozen and holds a bit the receiver lacks.
WithOnFrozen ==
    /\ last.op \in {"with", "union"}
    /\ last.ret = Len(heap)
    /\ heap[last.self].frozen
    /\ ~heap[last.ret].frozen
    /\ BitsOf(heap[last.ret].bitfield) \ BitsOf(heap[last.self].bitfield) # {}

\* -------------------------------------------------------------------- C6

\* What a mutator that is not a no-op may touch: the receiver's value alone;
\* it returns the receiver.
OnlyValueChanges ==
    /\ heap'[last'.self] = [Receiver EXCEPT !.bitfield = heap'[last'.self].bitfield]
    /\ Len(heap') = Len(heap)
    /\ \A j \in Ids : j # last'.self => heap'[j] = heap[j]
    /\ last'.ret = last'.self

\* C6: add(bits) on an instance that is not frozen sets its value to
\* (value | resolve(bits)) & mask, changes nothing else and returns it.
AddSetsBits ==
    /\ [](\A i \in Ids, bit \in Inputs(heap) :
            ~heap[i].frozen =>
                LET r == add(heap[i], bit)
                IN  /\ BitsOf(r.bitfield) =
                        (BitsOf(heap[i].bitfield)
                            \cup BitsOf(resolve(heap[i].con, bit)))
                            \cap MaskBits(heap[i])
                    /\ r = [heap[i] EXCEPT !.bitfield = r.bitfield])
    /\ [][(last'.op = "add" /\ ~Receiver.frozen) =>
            /\ OnlyValueChanges
            /\ BitsOf(Receiver.bitfield) \cap MaskBits(Receiver)
                    \subseteq BitsOf(heap'[last'.self].bitfield)
            /\ BitsOf(heap'[last'.self].bitfield) \subseteq MaskBits(Receiver)]_vars

\* add has just run on an instance that is not frozen and now holds all of
\* its mask.
AddCalled ==
    /\ last.op = "add"
    /\ ~heap[last.self].frozen
    /\ BitsOf(heap[last.self].bitfield) = MaskBits(heap[last.self])

\* -------------------------------------------------------------------- C7

\* C7: remove(bits) on an instance that is not frozen sets its value to
\* value & ~resolve(bits) & mask, changes nothing else and returns it.
RemoveClearsBits ==
    /\ [](\A i \in Ids, bit \in Inputs(heap) :
            ~heap[i].frozen =>
                LET r == remove(heap[i], bit)
                IN  /\ BitsOf(r.bitfield) =
                        (BitsOf(heap[i].bitfield)
                            \ BitsOf(resolve(heap[i].con, bit)))
                            \cap MaskBits(heap[i])
                    /\ r = [heap[i] EXCEPT !.bitfield = r.bitfield])
    /\ [][(last'.op = "remove" /\ ~Receiver.frozen) =>
            /\ OnlyValueChanges
            /\ BitsOf(heap'[last'.self].bitfield)
                    \subseteq BitsOf(Receiver.bitfield) \cap MaskBits(Receiver)]_vars

\* remove has just run on an instance that is not frozen and now holds one
\* of its two flags.
RemoveCalled ==
    /\ last.op = "remove"
    /\ ~heap[last.self].frozen
    /\ heap[last.self].bitfield = 2

\* -------------------------------------------------------------------- C8

\* The instance of the README that holds Read alone.
ReadOnly == construct("Permissions", Str("Read"))

\* The README case: over mask 15 an instance holding 1 yields 14.
ReadOnlyYields14 ==
    /\ getMask("Permissions") = 15
    /\ ReadOnly.bitfield = 1
    /\ missing(ReadOnly).bitfield = 14
    /\ complement(ReadOnly).bitfield = 14
    /\ invert(ReadOnly).bitfield = 14

\* C8: missing() and complement() return the same instance, one that holds
\* the bits of the mask the receiver lacks; invert() on an instance that is
\* not frozen leaves that number in the receiver.  Over mask 15, 1 gives 14.
MissingIsComplement ==
    [][/\ last'.op \in {"missing", "complement"}
            => /\ BitsOf(Newest'.bitfield) =
                    MaskBits(Receiver) \ BitsOf(Receiver.bitfield)
               /\ Newest'.con = Receiver.con
               /\ ~Newest'.frozen
               /\ Newest' = missing(Receiver)
               /\ Newest' = complement(Receiver)
       /\ (last'.op = "invert" /\ ~Receiver.frozen)
            => /\ BitsOf(heap'[last'.self].bitfield) =
                    MaskBits(Receiver) \ BitsOf(Receiver.bitfield)
               /\ heap'[last'.self].bitfield = missing(Receiver).bitfield
               /\ OnlyValueChanges
       /\ ReadOnlyYields14]_vars

\* missing or complement has returned the one flag its receiver lacks.
MissingCalled ==
    /\ last.op \in {"missing", "complement"}
    /\ last.ret = Len(heap)
    /\ heap[last.self].bitfield = 1
    /\ heap[last.ret].bitfield = 2

\* -------------------------------------------------------------------- C9

\* C9: intersection(bits) returns an instance holding value & resolve(bits),
\* difference(bits) one holding value & ~resolve(bits), symmetricDifference(bits)
\* one holding value ^ resolve(bits), for every receiver and every input.
SetAlgebraValues ==
    [][last'.op \in {"intersection", "difference", "symmetricDifference"} =>
        \A bit \in Inputs(heap) :
            /\ Intersection(last'.self, bit)
                => BitsOf(Newest'.bitfield) =
                    BitsOf(Receiver.bitfield) \cap Resolved(bit)
            /\ Difference(last'.self, bit)
                => BitsOf(Newest'.bitfield) =
                    BitsOf(Receiver.bitfield) \ Resolved(bit)
            /\ SymmetricDifference(last'.self, bit)
                => BitsOf(Newest'.bitfield) =
                    (BitsOf(Receiver.bitfield) \cup Resolved(bit))
                        \ (BitsOf(Receiver.bitfield) \cap Resolved(bit))]_vars

\* ------------------------------------------------------------------- C10

\* C10: any(bits) and has(bits) return the same boolean, true exactly when
\* value and resolve(bits) share a bit, for every instance and every input.
AnyIsHas ==
    [][last'.op \in {"has", "any"} =>
        \A bit \in Inputs(heap) :
            LET overlap == BitsOf(Receiver.bitfield) \cap Resolved(bit) # {}
            IN  /\ Has(last'.self, bit) => last'.flag = overlap
                /\ Any(last'.self, bit)
                    => (last'.flag = overlap /\ last'.flag = has(Receiver, bit))]_vars

\* ------------------------------------------------------------------- C11

\* The numbers the inputs of each class resolve to.
ResolvedInputs ==
    [con \in Viewed |-> {resolve(con, bit) : bit \in ViewInputs(con)}]

\* C11: equals(bits) is true exactly when the value and resolve(bits) are the
\* same number, for every instance and input, and the call returns that
\* boolean and changes nothing; a Permissions instance made from 5 equals
\* ['Read','Execute'] and does not equal 'Read'.
EqualsIsExact ==
    /\ [](\A i \in Ids :
            /\ \A bit \in ViewInputs(heap[i].con) :
                equals(heap[i], bit) =
                    (BitsOf(heap[i].bitfield) = BitsOf(resolve(heap[i].con, bit)))
            /\ (heap[i].con = "Permissions" /\ heap[i].bitfield = 5)
                => /\ equals(heap[i], Arr(<<Str("Read"), Str("Execute")>>))
                   /\ ~equals(heap[i], Str("Read")))
    /\ [][last'.op = "equals" =>
            /\ heap' = heap
            /\ last'.flag => Receiver.bitfield \in ResolvedInputs[Receiver.con]
            /\ ~last'.flag
                => ResolvedInputs[Receiver.con] # {Receiver.bitfield}]_vars

\* equals has answered true on a Permissions instance that holds 5.
EqualsCalled ==
    /\ last.op = "equals"
    /\ heap[last.self].con = "Permissions"
    /\ heap[last.self].bitfield = 5
    /\ last.flag

\* ------------------------------------------------------------------- C12

\* C12: the complement of the complement of an instance holds the value the
\* instance holds, however the instance was made.
DoubleComplement ==
    [][last'.op = "complement"
        => complement(Newest').bitfield = Receiver.bitfield]_vars

\* ------------------------------------------------------------------- C13

\* C13: when resolve(b) lies inside the mask, the instance x.without(b) returns
\* answers false to has(b): for every instance and input, and in the run when
\* has is called on what without has just returned.
WithoutThenHas ==
    /\ [](\A i \in Ids, bit \in Inputs(heap) :
            BitsOf(resolve(heap[i].con, bit)) \subseteq MaskBits(heap[i])
                => ~has(without(heap[i], bit), bit))
    /\ [][(last.op = "without" /\ last'.op = "has" /\ last'.self = last.ret) =>
            \A bit \in Inputs(heap) :
                (/\ Has(last'.self, bit)
                 /\ heap[last.ret] = without(heap[last.self], bit)
                 /\ Resolved(bit) \subseteq MaskBits(Receiver))
                    => ~last'.flag]_vars

\* without has returned an instance that lacks a flag its receiver holds.
WithoutCalled ==
    /\ last.op = "without"
    /\ last.ret = Len(heap)
    /\ heap[last.self].bitfield = 3
    /\ heap[last.ret].bitfield = 1

\* ------------------------------------------------------------------- C14

\* The elements of a list.
Range(xs) == {xs[i] : i \in DOMAIN xs}

\* The names an array of names lists.
Listed(bits) == {bits.items[i].s : i \in DOMAIN bits.items}

\* A list of names of class con that holds no name twice.
NoRepeat(xs) == \A i \in DOMAIN xs, j \in DOMAIN xs : xs[i] = xs[j] => i = j

\* A list of names of class con that never steps down in declared value.
Ascending(con, xs) ==
    \A i \in DOMAIN xs, j \in DOMAIN xs :
        i < j => Flags(con)[xs[i]] <= Flags(con)[xs[j]]

\* Two declared names of class con whose values share a bit.
Overlap(con, a, b) == BitsOf(Flags(con)[a]) \cap BitsOf(Flags(con)[b]) # {}

\* The declared values of class con are single bits, no two the same.
Conventional(con) ==
    \A a \in Names(con) :
        /\ Cardinality(BitsOf(Flags(con)[a])) = 1
        /\ \A b \in Names(con) : Flags(con)[a] = Flags(con)[b] => a = b

\* toArray has been called on the instance that new has just returned.
FreshToArray == last.op = "new" /\ last'.op = "toArray" /\ last'.self = last.ret

\* C14: toArray() on an instance just made from a list of declared names
\* returns exactly the listed names, each once, ascending by declared value,
\* and no other name, also when names share a value or a value has two bits.
RoundTrip ==
    [][FreshToArray =>
        \A bits \in NameLists(Receiver.con) :
            Receiver = construct(Receiver.con, bits)
                => /\ Range(out') = Listed(bits)
                   /\ NoRepeat(out')
                   /\ Ascending(Receiver.con, out')]_vars

\* C14 as amended: toArray() on an instance just made from a list of declared
\* names returns, each once and ascending by declared value, exactly the
\* declared names whose value shares a bit with a listed name's value; every
\* listed name of a value other than 0 is among them, and they are exactly
\* the listed names when the declared values are distinct single bits.
RoundTripOverlap ==
    [][FreshToArray =>
        \A bits \in NameLists(Receiver.con) :
            Receiver = construct(Receiver.con, bits)
                => /\ Range(out') =
                        {a \in Names(Receiver.con) :
                            \E b \in Listed(bits) : Overlap(Receiver.con, a, b)}
                   /\ {b \in Listed(bits) : Flags(Receiver.con)[b] # 0}
                        \subseteq Range(out')
                   /\ Conventional(Receiver.con) => Range(out') = Listed(bits)
                   /\ NoRepeat(out')
                   /\ Ascending(Receiver.con, out')]_vars

\* toArray has returned, for a Mixed instance that holds Read's bit alone, the
\* three names whose value has that bit.
RoundTripCalled ==
    /\ last.op = "toArray"
    /\ heap[last.self] = construct("Mixed", Arr(<<Str("Read")>>))
    /\ out = <<"Read", "Look", "ReadWrite">>

\* ------------------------------------------------------------------- C15

\* The iteration, or toArray built on it, has just run.
Iterated == last'.op \in {"iterator", "toArray"}

\* C15: the ascending iteration, and toArray() built on it, yields exactly the
\* declared names whose declared value is contained in the value, each once,
\* ascending by declared value; names that share a value are yielded together.
IterationContained ==
    [][Iterated =>
        /\ Range(out') =
            {a \in Names(Receiver.con) :
                BitsOf(Flags(Receiver.con)[a]) \subseteq BitsOf(Receiver.bitfield)}
        /\ NoRepeat(out')
        /\ Ascending(Receiver.con, out')]_vars

\* C15 as amended: the ascending iteration, and toArray() built on it, yields
\* exactly the declared names whose declared value shares a bit with the
\* value, each once, ascending by declared value; names that share a value
\* are yielded together, and a name of value 0 is never yielded.
IterationOverlap ==
    [][Iterated =>
        /\ Range(out') =
            {a \in Names(Receiver.con) :
                BitsOf(Flags(Receiver.con)[a]) \cap BitsOf(Receiver.bitfield) # {}}
        /\ NoRepeat(out')
        /\ Ascending(Receiver.con, out')
        /\ \A a \in Range(out'), b \in Names(Receiver.con) :
                Flags(Receiver.con)[a] = Flags(Receiver.con)[b]
                    => b \in Range(out')
        /\ \A a \in Range(out') : Flags(Receiver.con)[a] # 0
        /\ out' = iterator(Receiver)]_vars

\* The iteration has yielded, for a Mixed instance that holds Write's bit
\* alone, Write and the two-bit name that has that bit.
IterationCalled ==
    /\ last.op = "iterator"
    /\ heap[last.self].con = "Mixed"
    /\ heap[last.self].bitfield = 2
    /\ out = <<"Write", "ReadWrite">>

\* ------------------------------------------------------------------- C16

\* The Permissions instance of the spec's example, made from ['Write','Read'].
WriteRead == construct("Permissions", Arr(<<Str("Write"), Str("Read")>>))

\* C16: toObject() returns an object whose keys are exactly the declared
\* names, each holding has(name), so true exactly for the names toArray()
\* lists; for Permissions made from ['Write','Read'] it is
\* {Read:true, Write:true, Execute:false, Admin:false}.
ToObjectIsHas ==
    [][last'.op = "toObject" =>
        /\ DOMAIN out' = Names(Receiver.con)
        /\ \A k \in Names(Receiver.con) :
            /\ out'[k] = has(Receiver, Str(k))
            /\ out'[k] =
                (BitsOf(Receiver.bitfield) \cap BitsOf(Flags(Receiver.con)[k]) # {})
            /\ out'[k] = (k \in Range(toArray(Receiver)))
        /\ Receiver = WriteRead
            => out' = [Read |-> TRUE, Write |-> TRUE,
                       Execute |-> FALSE, Admin |-> FALSE]]_vars

\* toObject has returned the object of the example.
ToObjectCalled ==
    /\ last.op = "toObject"
    /\ heap[last.self] = WriteRead
    /\ out = [Read |-> TRUE, Write |-> TRUE, Execute |-> FALSE, Admin |-> FALSE]

\* ------------------------------------------------------------------- C17

\* A name no modelled class declares.
Unknown == Str("NotAFlag")

\* C17: a name the definition lacks resolves to 0: an instance made from it
\* holds 0, has of it is false on every instance, and add and remove of it
\* leave the value as it was.
UnknownAbsorbed ==
    [][/\ \A i \in Ids : resolve(heap[i].con, Unknown) = 0
       /\ (last'.op = "new" /\ New(Newest'.con, Unknown)) => Newest'.bitfield = 0
       /\ (last'.op = "has" /\ Has(last'.self, Unknown)) => ~last'.flag
       /\ (last'.op = "add" /\ Add(last'.self, Unknown))
            => heap'[last'.self].bitfield = Receiver.bitfield
       /\ (last'.op = "remove" /\ Remove(last'.self, Unknown))
            => heap'[last'.self].bitfield = Receiver.bitfield]_vars

\* ------------------------------------------------------------------- C18

\* Bit k of the integer v, negative or not, is one.
HasBit(v, k) == (v \div 2^k) % 2 = 1

\* C18: whatever the shape of the input, resolve returns a number inside the
\* mask of the class it is called on, and for a number handed in it keeps every
\* bit of that number that the mask has.
ResolveMasked ==
    \A i \in Ids, bit \in Inputs(heap) :
        /\ BitsOf(resolve(heap[i].con, bit)) \subseteq MaskBits(heap[i])
        /\ bit.kind = "number"
            => \A k \in MaskBits(heap[i]) :
                HasBit(bit.n, k) <=> k \in BitsOf(resolve(heap[i].con, bit))

\* ------------------------------------------------------------------- C19

\* new was called with no argument, or with undefined.
NoArgument ==
    \/ last'.op = "newDefault"
    \/ last'.op = "new" /\ New(Newest'.con, Undef)

\* C19: an instance made with no input holds its class's DefaultBit: 0 where
\* the class sets none, 1 for Defaults.
DefaultIsDefaultBit ==
    [][NoArgument => Newest'.bitfield = DefaultBit(Newest'.con)]_vars

\* C19 as amended: an instance made with no input holds the bits of its
\* class's DefaultBit that lie inside the mask: DefaultBit itself when it lies
\* inside the mask, 0 where the class sets none, 1 for Defaults.
DefaultIsMasked ==
    [][NoArgument =>
        /\ BitsOf(Newest'.bitfield) =
            BitsOf(DefaultBit(Newest'.con)) \cap MaskBits(Newest')
        /\ BitsOf(DefaultBit(Newest'.con)) \subseteq MaskBits(Newest')
            => Newest'.bitfield = DefaultBit(Newest'.con)
        /\ Newest'.con = "Permissions" => Newest'.bitfield = 0
        /\ Newest'.con = "Defaults" => Newest'.bitfield = 1]_vars

\* new Mixed() has returned an instance that holds the one bit of DefaultBit 5
\* that Mixed's mask has.
DefaultCalled ==
    /\ last.op = "newDefault"
    /\ Newest.con = "Mixed"
    /\ Newest.bitfield = 1

\* ------------------------------------------------------------------- C20

\* The k-th components of a list of pairs.
Project(xs, k) == [i \in DOMAIN xs |-> xs[i][k]]

\* C20: entries() returns one (name, declared value) pair for every declared
\* name, present or not, ascending by declared value, the same list whatever
\* value the instance takes; keys() and values() are that list's names and
\* its declared values, in the same order.
EntriesAreDeclared ==
    [][/\ last'.op = "entries" =>
            /\ Len(out') = Cardinality(Names(Receiver.con))
            /\ Range(Project(out', 1)) = Names(Receiver.con)
            /\ \A i \in DOMAIN out' : out'[i][2] = Flags(Receiver.con)[out'[i][1]]
            /\ \A i \in DOMAIN out', j \in DOMAIN out' :
                    i < j => out'[i][2] <= out'[j][2]
       /\ last'.op \in {"add", "remove"} =>
            entries(heap'[last'.self]) = entries(Receiver)
       /\ last'.op = "keys" => out' = Project(entries(Receiver), 1)
       /\ last'.op = "values" => out' = Project(entries(Receiver), 2)]_vars

\* entries has returned all five pairs of Mixed, in ascending order, for an
\* instance that holds no flag.
EntriesCalled ==
    /\ last.op = "entries"
    /\ heap[last.self].con = "Mixed"
    /\ heap[last.self].bitfield = 0
    /\ out = << <<"None", 0>>, <<"Read", 1>>, <<"Look", 1>>,
                <<"Write", 2>>, <<"ReadWrite", 3>> >>

\* ------------------------------------------------------------------- C21

\* p of the Quick start after new Permissions(['Read','Write']),
\* p.add('Execute'), p.remove('Write') and p.invert().
QuickP ==
    invert(remove(add(construct("Permissions", Arr(<<Str("Read"), Str("Write")>>)),
                      Str("Execute")),
                  Str("Write")))

\* q of the Quick start: p.with('Admin').without('Read').
QuickQ == without(with(QuickP, Str("Admin")), Str("Read"))

\* The Quick start has run with the README's arguments up to q.
QuickStartRun == heap = <<QuickP, QuickQ>>

ZeroNames(con) == {a \in Names(con) : Flags(con)[a] = 0}

\* C22: a declared name whose value is 0 is yielded by the ascending
\* iteration, and listed by toArray(), whatever the value of the instance.
ZeroAlwaysYielded ==
    [][Iterated => ZeroNames(Receiver.con) \subseteq Range(out')]_vars

\* C22 as amended: a declared name whose value is 0 is never yielded by the
\* ascending iteration, nor listed by toArray(), whatever the value of the
\* instance: has of it is false and toObject() maps it to false.
ZeroNeverYielded ==
    [][/\ Iterated => ZeroNames(Receiver.con) \cap Range(out') = {}
       /\ last'.op = "toObject"
            => \A a \in ZeroNames(Receiver.con) :
                ~out'[a] /\ ~has(Receiver, Str(a))]_vars

\* The iteration has run on a Mixed instance that holds every bit of its mask
\* and has yielded every name but None, whose value is 0.
ZeroSkipped ==
    /\ last.op = "iterator"
    /\ heap[last.self].con = "Mixed"
    /\ heap[last.self].bitfield = getMask("Mixed")
    /\ out = <<"Read", "Look", "Write", "ReadWrite">>

\* ------------------------------------------------------------------- C23

\* C23: findIndex(predicate) is the position, counted from 0 in the list
\* entries() returns, of the first declared name predicate is true of, present
\* or not, and -1 exactly when it is true of no declared name; find(predicate)
\* is the first present name predicate is true of, so findIndex can return a
\* position where find returns undefined.
FindIndexIsDeclared ==
    /\ [](\A i \in Ids : \A predicate \in Predicates(heap[i].con) :
            LET es == entries(heap[i])
                at == findIndex(heap[i], predicate)
                hit == find(heap[i], predicate)
                present == Range(toArray(heap[i]))
            IN  /\ at \in -1..(Len(es) - 1)
                /\ at = -1 <=> predicate \cap Names(heap[i].con) = {}
                /\ at >= 0
                    => /\ es[at + 1][1] \in predicate
                       /\ \A j \in 1..at : es[j][1] \notin predicate
                /\ hit.found <=> predicate \cap present # {}
                /\ hit.found => hit.flag \in predicate \cap present
                /\ (predicate \cap Names(heap[i].con) # {}
                        /\ predicate \cap present = {})
                    => (at >= 0 /\ hit = NotFound))
    /\ [][/\ last'.op = "findIndex"
                => /\ heap' = heap
                   /\ \E predicate \in Predicates(Receiver.con) :
                        out' = findIndex(Receiver, predicate)
          /\ last'.op = "find"
                => /\ heap' = heap
                   /\ \E predicate \in Predicates(Receiver.con) :
                        out' = find(Receiver, predicate)]_vars

\* findIndex has returned the position of Admin, 3, on a Permissions instance
\* that holds Read alone, where find for the same predicate finds nothing.
FindIndexCalled ==
    /\ last.op = "findIndex"
    /\ heap[last.self].con = "Permissions"
    /\ heap[last.self].bitfield = 1
    /\ out = 3
    /\ find(heap[last.self], {"Admin"}) = NotFound

\* ------------------------------------------------------------------- C24

\* The instance's list is not the list its class's Flags give now.
Stale(o) == entries(o) # validFlagsOf[o.con]

\* C24: an instance's ordered flag list is made when the instance is made,
\* from the Flags of that moment, and no later call or change of Flags alters
\* it: entries(), keys(), values() and the iteration go by it; add, remove,
\* invert (through missing) and resolve use the mask of the Flags as they are
\* at the call.
LateDefinition ==
    /\ [](\A i \in Ids :
            /\ BitsOf(resolve(heap[i].con, Num(15))) = MaskBits(heap[i])
            /\ MaskBits(heap[i]) =
                UNION {BitsOf(Flags(heap[i].con)[a]) : a \in Names(heap[i].con)}
            /\ BitsOf(missing(heap[i]).bitfield) =
                MaskBits(heap[i]) \ BitsOf(heap[i].bitfield))
    /\ [][/\ \A i \in Ids :
                /\ entries(heap'[i]) = entries(heap[i])
                /\ keys(heap'[i]) = keys(heap[i])
                /\ values(heap'[i]) = values(heap[i])
          /\ Len(heap') > Len(heap)
                => /\ Range(keys(Newest')) = Names(Newest'.con)
                   /\ \A e \in Range(entries(Newest')) :
                        e[2] = Flags(Newest'.con)[e[1]]
          /\ last'.op = "redefine"
                => \A i \in Ids :
                    /\ heap'[i].con = Redefined[heap[i].con]
                    /\ iterator(heap'[i]) = iterator(heap[i])
          /\ last'.op = "entries" => out' = entries(Receiver)
          /\ last'.op = "keys" => out' = Project(entries(Receiver), 1)
          /\ last'.op = "values" => out' = Project(entries(Receiver), 2)
          /\ last'.op = "iterator"
                => Range(out') =
                    {e[1] : e \in {d \in Range(entries(Receiver)) :
                        BitsOf(d[2]) \cap BitsOf(Receiver.bitfield) # {}}}
          /\ last'.op \in {"add", "remove", "invert"}
                => BitsOf(heap'[last'.self].bitfield) \subseteq MaskBits(Receiver)
          /\ last'.op = "add"
                => BitsOf(Receiver.bitfield) \cap MaskBits(Receiver)
                        \subseteq BitsOf(heap'[last'.self].bitfield)
          /\ last'.op = "invert"
                => BitsOf(heap'[last'.self].bitfield) =
                    MaskBits(Receiver) \ BitsOf(Receiver.bitfield)]_vars

\* add has set C, which F's Flags have had only since the instance was made:
\* the instance holds C's bit, and its keys() and its iteration know no C.
LateAdd ==
    /\ last.op = "add"
    /\ heap[last.self].con = "FWide"
    /\ Stale(heap[last.self])
    /\ heap[last.self].bitfield = 4
    /\ keys(heap[last.self]) = <<"A", "B">>
    /\ iterator(heap[last.self]) = << >>

====
